---- MODULE Spec2Model ----
(***************************************************************************)
(* Model of falling-cubes-demo.cpp: the Vec3 value type, resetCubes,       *)
(* updatePhysics and the frame branch of the WinMain loop.                 *)
(*                                                                         *)
(* A float is modelled as a fixed-point integer.  Lengths, velocities,     *)
(* seconds and the dimensionless factors carry three decimals (1.0 is      *)
(* 1000, so the 0.001f separation epsilon is 1); angles and angular        *)
(* velocities carry two decimals (1 degree is 100).  Products and          *)
(* quotients are rounded to the nearest representable value, as float      *)
(* arithmetic rounds.                                                      *)
(***************************************************************************)
EXTENDS Integers, Sequences, FiniteSets, TLC

VARIABLES
    cubes,         \* std::vector<Cube> cubes, indexed 0 .. NUM_CUBES-1
    secondTimer,   \* float secondTimer
    secondsCount,  \* int secondsCount
    fpsTimer,      \* float fpsTimer
    frameCount,    \* int frameCount
    resetTimer,    \* float resetTimer
    rotateY,       \* float rotateY
    deltaTime,     \* the local deltaTime of the last frame of the WinMain loop
    frames,        \* number of frames run since start-up (bounds the model)
    resets,        \* number of resetCubes calls since start-up
    timerAtCheck,  \* resetTimer as compared with the interval in the last frame
    bodyLog,       \* per cube: what the integration loop of the last frame did
    pairLog,       \* the overlapping pairs the last frame resolved, in order
    va, vb,        \* operands of the Vec3 operations
    vr             \* results of the Vec3 operations on va and vb

vars == <<cubes, secondTimer, secondsCount, fpsTimer, frameCount, resetTimer,
          rotateY, deltaTime, frames, resets, timerAtCheck, bodyLog, pairLog,
          va, vb, vr>>

(***************************************************************************)
(* Program constants (fixed point).                                        *)
(***************************************************************************)
ONE == 1000
GRAVITY == 9810
GROUND_Y == -2000
CUBE_SIZE == 500
BOUNCE_FACTOR == 1000
FRICTION_FACTOR == 900
REST_THRESHOLD == 50
RESET_INTERVAL_SECONDS == 13000
AUTO_ROTATE_SPEED_Y == 10000
FULL_TURN == 36000
WALL_BOUND == 8000
SEPARATION_EPSILON == 1
GRID_WIDTH == 10
GRID_CENTRE == 5
HEIGHT_MIN == 5000
HEIGHT_MAX == 15000

(***************************************************************************)
(* Bounds of the model.                                                    *)
(***************************************************************************)
NUM_CUBES == 2
MaxFrames == 2
MaxDeepFrames == 3
WallCubes == 3
MaxWallFrames == 4
MaxTimerFrames == 8
MaxCoord == 1
MaxAxisFrames == 3

(***************************************************************************)
(* Float arithmetic.                                                       *)
(***************************************************************************)
Abs(a) == IF a < 0 THEN -a ELSE a

Min(a, b) == IF a < b THEN a ELSE b

Max(a, b) == IF a > b THEN a ELSE b

\* n / d rounded to the nearest integer, halves away from zero (d > 0)
RoundDiv(n, d) ==
    IF n >= 0 THEN (2 * n + d) \div (2 * d) ELSE -((2 * (-n) + d) \div (2 * d))

FMul(a, b) == RoundDiv(a * b, ONE)

FDiv(a, b) == RoundDiv(a * ONE, b)

\* a value of three decimals as a value of two decimals (an angle)
ToAngle(a) == RoundDiv(a, 10)

\* C fmod: the remainder has the sign of the dividend
Fmod(a, m) == IF a >= 0 THEN a % m ELSE -((-a) % m)

RECURSIVE SqrtSearch(_, _, _)
SqrtSearch(n, lo, hi) ==
    IF lo >= hi THEN lo
    ELSE LET mid == (lo + hi + 1) \div 2
         IN  IF mid * mid <= n THEN SqrtSearch(n, mid, hi)
             ELSE SqrtSearch(n, lo, mid - 1)

\* std::sqrt, rounded down
Sqrt(n) == SqrtSearch(n, 0, 46340)

(***************************************************************************)
(* struct Vec3                                                             *)
(***************************************************************************)
Vec3(x, y, z) == [x |-> x, y |-> y, z |-> z]

Zero3 == Vec3(0, 0, 0)

VAdd(a, b) == Vec3(a.x + b.x, a.y + b.y, a.z + b.y)

VSub(a, b) == Vec3(a.x - b.x, a.y - b.y, a.z - b.z)

VScale(a, s) == Vec3(FMul(a.x, s), FMul(a.y, s), FMul(a.z, s))

VCross(a, b) ==
    Vec3(FMul(a.y, b.z) - FMul(a.z, b.y),
         FMul(a.z, b.x) - FMul(a.x, b.y),
         FMul(a.x, b.y) - FMul(a.y, b.x))

Dot(a, b) == FMul(a.x, b.x) + FMul(a.y, b.y) + FMul(a.z, b.z)

\* a float keeps its relative precision whatever its size: when a component
\* is too large for the squares to be summed in 32 bits, they are taken at a
\* coarser grain
Length(a) ==
    IF Max(Abs(a.x), Max(Abs(a.y), Abs(a.z))) <= 26000
    THEN Sqrt(a.x * a.x + a.y * a.y + a.z * a.z)
    ELSE 100 * Sqrt(RoundDiv(a.x, 100) * RoundDiv(a.x, 100)
                    + RoundDiv(a.y, 100) * RoundDiv(a.y, 100)
                    + RoundDiv(a.z, 100) * RoundDiv(a.z, 100))

Normalize(a) ==
    LET len == Length(a)
    IN  IF len > 0 THEN Vec3(FDiv(a.x, len), FDiv(a.y, len), FDiv(a.z, len))
        ELSE Zero3

(***************************************************************************)
(* struct Cube and resetCubes                                              *)
(***************************************************************************)
\* the indices of a collection of n cubes
CubeIds(n) == 0 .. (n - 1)

\* resetCubes with the grid cells one cube wide instead of two
NewCubeTightGrid(i, height) ==
    LET x_offset == FMul(((i % GRID_WIDTH) - GRID_CENTRE) * ONE, CUBE_SIZE)
        z_offset == FMul((((i \div GRID_WIDTH) % GRID_WIDTH) - GRID_CENTRE) * ONE, CUBE_SIZE)
        y_offset == FMul((i \div (GRID_WIDTH * GRID_WIDTH)) * ONE, CUBE_SIZE) + height
    IN  [position        |-> Vec3(x_offset, y_offset, z_offset),
         velocity        |-> Zero3,
         angularVelocity |-> Zero3,
         rotation        |-> Zero3,
         size            |-> CUBE_SIZE,
         resting         |-> FALSE]

NewCube(i, height) ==
    LET x_offset == FMul(((i % GRID_WIDTH) - GRID_CENTRE) * ONE, FMul(CUBE_SIZE, 2 * ONE))
        z_offset == FMul((((i \div GRID_WIDTH) % GRID_WIDTH) - GRID_CENTRE) * ONE,
                         FMul(CUBE_SIZE, 2 * ONE))
        y_offset == FMul((i \div (GRID_WIDTH * GRID_WIDTH)) * ONE, FMul(CUBE_SIZE, 2 * ONE))
                    + height
    IN  [position        |-> Vec3(x_offset, y_offset, z_offset),
         velocity        |-> Zero3,
         angularVelocity |-> Zero3,
         rotation        |-> Zero3,
         size            |-> CUBE_SIZE,
         resting         |-> FALSE]

\* the collections resetCubes can build, one per outcome of the dist_height draws
ResetCubes(n, heights) ==
    { [i \in CubeIds(n) |-> NewCube(i, h[i])] : h \in [CubeIds(n) -> heights] }

(***************************************************************************)
(* updatePhysics: the loop over the cubes (integration, ground, walls,     *)
(* resting classification)                                                 *)
(***************************************************************************)
HalfSize(c) == FDiv(c.size, 2 * ONE)

Integrate(c, dt) ==
    LET vy  == c.velocity.y - FMul(GRAVITY, dt)
        vel == [c.velocity EXCEPT !.y = vy]
        pos == Vec3(c.position.x + FMul(vel.x, dt),
                    c.position.y + FMul(vel.y, dt),
                    c.position.z + FMul(vel.z, dt))
        rot == Vec3(Fmod(c.rotation.x + FMul(c.angularVelocity.x, dt), FULL_TURN),
                    Fmod(c.rotation.y + FMul(c.angularVelocity.y, dt), FULL_TURN),
                    Fmod(c.rotation.z + FMul(c.angularVelocity.z, dt), FULL_TURN))
    IN  [c EXCEPT !.velocity = vel, !.position = pos, !.rotation = rot]

SpinDraws(angularDraws) ==
    { Vec3(a, b, d) : a \in angularDraws, b \in angularDraws, d \in angularDraws }

\* the bounce off a boundary with the given normal: one cube per outcome of
\* the random draws (perturbs: the possible random_perturb vectors)
Bounce(c, normal, perturbs, angularDraws) ==
    LET normal_speed == Dot(c.velocity, normal)
        tangential   == VScale(VSub(c.velocity, VScale(normal, normal_speed)),
                               FRICTION_FACTOR)
        spins        == IF Abs(normal_speed) > REST_THRESHOLD
                        THEN SpinDraws(angularDraws)
                        ELSE {c.angularVelocity}
    IN  { [c EXCEPT
             !.velocity = VAdd(VScale(Normalize(VAdd(normal, p)),
                                      FMul(-normal_speed, BOUNCE_FACTOR)),
                               tangential),
             !.angularVelocity = s] : p \in perturbs, s \in spins }

HitsGround(c) == c.position.y - HalfSize(c) < GROUND_Y

GroundStage(c, bounceDraws, angularDraws) ==
    IF HitsGround(c)
    THEN Bounce([c EXCEPT !.position.y = GROUND_Y + HalfSize(c)],
                Vec3(0, ONE, 0),
                { Vec3(a, 0, b) : a \in bounceDraws, b \in bounceDraws },
                angularDraws)
    ELSE {c}

WallXStage(c, bounceDraws, angularDraws) ==
    IF c.position.x - HalfSize(c) < -WALL_BOUND
    THEN Bounce([c EXCEPT !.position.x = -WALL_BOUND + HalfSize(c)],
                Vec3(ONE, 0, 0),
                { Vec3(0, a, b) : a \in bounceDraws, b \in bounceDraws },
                angularDraws)
    ELSE IF c.position.x + HalfSize(c) > WALL_BOUND
    THEN Bounce([c EXCEPT !.position.x = WALL_BOUND - HalfSize(c)],
                Vec3(-ONE, 0, 0),
                { Vec3(0, a, b) : a \in bounceDraws, b \in bounceDraws },
                angularDraws)
    ELSE {c}

WallZStage(c, bounceDraws, angularDraws) ==
    IF c.position.z - HalfSize(c) < -WALL_BOUND
    THEN Bounce([c EXCEPT !.position.z = -WALL_BOUND + HalfSize(c)],
                Vec3(0, 0, ONE),
                { Vec3(a, b, 0) : a \in bounceDraws, b \in bounceDraws },
                angularDraws)
    ELSE IF c.position.z + HalfSize(c) > WALL_BOUND
    THEN Bounce([c EXCEPT !.position.z = WALL_BOUND - HalfSize(c)],
                Vec3(0, 0, -ONE),
                { Vec3(a, b, 0) : a \in bounceDraws, b \in bounceDraws },
                angularDraws)
    ELSE {c}

\* cube_bottom is the bottom face as computed before the ground clamp
RestStage(c, cube_bottom) ==
    IF /\ Length(c.velocity) < REST_THRESHOLD
       /\ Length(c.angularVelocity) < ToAngle(REST_THRESHOLD * 10)
       /\ cube_bottom <= GROUND_Y + REST_THRESHOLD
    THEN [c EXCEPT !.resting = TRUE, !.velocity = Zero3, !.angularVelocity = Zero3]
    ELSE [c EXCEPT !.resting = FALSE]

\* one iteration of the loop: a record per outcome of the random draws,
\* holding the cube as the iteration finds it, after integration, after the
\* ground branch, after the
\* wall branches, and as the iteration leaves it
StepCube(c, dt, bounceDraws, angularDraws) ==
    LET integrated  == Integrate(c, dt)
        cube_bottom == integrated.position.y - HalfSize(integrated)
    IN  UNION { UNION { { [start      |-> c,
                           integrated |-> integrated,
                           hitGround  |-> HitsGround(integrated),
                           grounded   |-> g,
                           walled     |-> z,
                           stepped    |-> RestStage(z, cube_bottom)]
                          : z \in WallZStage(x, bounceDraws, angularDraws) }
                      : x \in WallXStage(g, bounceDraws, angularDraws) }
              : g \in GroundStage(integrated, bounceDraws, angularDraws) }

\* the whole loop over cubes 0 .. i: the possible logs, one record per cube
RECURSIVE StepCubes(_, _, _, _, _)
StepCubes(cs, i, dt, bounceDraws, angularDraws) ==
    IF i < 0 THEN { [j \in {} |-> 0] }
    ELSE { [j \in 0 .. i |-> IF j = i THEN r ELSE f[j]]
             : f \in StepCubes(cs, i - 1, dt, bounceDraws, angularDraws),
               r \in StepCube(cs[i], dt, bounceDraws, angularDraws) }

(***************************************************************************)
(* updatePhysics: the pairwise collision pass                              *)
(***************************************************************************)
MinFace(c) == Vec3(c.position.x - HalfSize(c), c.position.y - HalfSize(c),
                   c.position.z - HalfSize(c))

MaxFace(c) == Vec3(c.position.x + HalfSize(c), c.position.y + HalfSize(c),
                   c.position.z + HalfSize(c))

\* overlapX && overlapY && overlapZ
Overlapping(c1, c2) ==
    /\ MaxFace(c1).x > MinFace(c2).x /\ MinFace(c1).x < MaxFace(c2).x
    /\ MaxFace(c1).y > MinFace(c2).y /\ MinFace(c1).y < MaxFace(c2).y
    /\ MaxFace(c1).z > MinFace(c2).z /\ MinFace(c1).z < MaxFace(c2).z

\* overlap_x, overlap_y, overlap_z
Overlap(c1, c2) ==
    Vec3(Min(MaxFace(c1).x, MaxFace(c2).x) - Max(MinFace(c1).x, MinFace(c2).x),
         Min(MaxFace(c1).y, MaxFace(c2).y) - Max(MinFace(c1).y, MinFace(c2).y),
         Min(MaxFace(c1).z, MaxFace(c2).z) - Max(MinFace(c1).z, MinFace(c2).z))

MtvAxis(o) ==
    IF o.x < o.y /\ o.x < o.z THEN "x"
    ELSE IF o.y < o.x /\ o.y < o.z THEN "y"
    ELSE "z"

MtvMagnitude(o) ==
    IF MtvAxis(o) = "x" THEN o.x ELSE IF MtvAxis(o) = "y" THEN o.y ELSE o.z

Toward(a, b) == IF a > b THEN ONE ELSE -ONE

MtvDirection(c1, c2) ==
    LET axis == MtvAxis(Overlap(c1, c2))
    IN  IF axis = "x" THEN Vec3(Toward(c1.position.x, c2.position.x), 0, 0)
        ELSE IF axis = "y" THEN Vec3(0, Toward(c1.position.y, c2.position.y), 0)
        ELSE Vec3(0, 0, Toward(c1.position.z, c2.position.z))

SeparationAmount(o) == FDiv(MtvMagnitude(o), 2 * ONE) + SEPARATION_EPSILON

\* the positions after the push
Separate(c1, c2) ==
    LET push == VScale(MtvDirection(c1, c2), SeparationAmount(Overlap(c1, c2)))
    IN  <<[c1 EXCEPT !.position = VAdd(c1.position, push)],
          [c2 EXCEPT !.position = VSub(c2.position, push)]>>

RelativeVelocity(c1, c2) == Dot(VSub(c1.velocity, c2.velocity), MtvDirection(c1, c2))

\* the impulse applied to separating pairs instead of approaching ones
ConvergingWrongSign(c1, c2) == RelativeVelocity(c1, c2) > 0

Converging(c1, c2) == RelativeVelocity(c1, c2) < 0

\* the velocities after the impulse and the friction on the tangential part
Impulse(c1, c2) ==
    LET dir     == MtvDirection(c1, c2)
        impulse == FDiv(FMul(-(ONE + BOUNCE_FACTOR), RelativeVelocity(c1, c2)), 2 * ONE)
        iv      == VScale(dir, impulse)
        v1      == VAdd(c1.velocity, iv)
        v2      == VSub(c2.velocity, iv)
        t1      == VSub(v1, VScale(dir, Dot(v1, dir)))
        t2      == VSub(v2, VScale(dir, Dot(v2, dir)))
    IN  <<VAdd(VScale(dir, Dot(v1, dir)), VScale(t1, FRICTION_FACTOR)),
          VAdd(VScale(dir, Dot(v2, dir)), VScale(t2, FRICTION_FACTOR))>>

\* the body of the if (overlapX && overlapY && overlapZ): one pair of cubes
\* per outcome of the random draws
ResolvePair(c1, c2, angularDraws) ==
    LET moved == Separate(c1, c2)
    IN  IF Converging(c1, c2)
        THEN { <<[moved[1] EXCEPT !.velocity = Impulse(c1, c2)[1], !.angularVelocity = s1],
                 [moved[2] EXCEPT !.velocity = Impulse(c1, c2)[2], !.angularVelocity = s2]>>
                 : s1 \in SpinDraws(angularDraws), s2 \in SpinDraws(angularDraws) }
        ELSE { moved }

\* the pairs of a collection of n cubes in the order of the nested loops
RECURSIVE PairsFrom(_, _, _)
PairsFrom(n, i, j) ==
    IF i >= n - 1 THEN <<>>
    ELSE IF j >= n THEN PairsFrom(n, i + 1, i + 2)
    ELSE <<<<i, j>>>> \o PairsFrom(n, i, j + 1)

PairOrder(n) == PairsFrom(n, 0, 1)

PairEntry(i, j, c1, c2, r) ==
    [i |-> i, j |-> j, axis |-> MtvAxis(Overlap(c1, c2)), overlap |-> Overlap(c1, c2),
     direction |-> MtvDirection(c1, c2), relative |-> RelativeVelocity(c1, c2),
     before |-> <<c1, c2>>, after |-> r]

\* the pass from the k-th pair on: the possible final collections, each
\* with the log of the pairs resolved
RECURSIVE PairPass(_, _, _, _, _)
PairPass(cs, log, order, k, angularDraws) ==
    IF k > Len(order) THEN { [cubes |-> cs, log |-> log] }
    ELSE LET i == order[k][1]
             j == order[k][2]
         IN  IF Overlapping(cs[i], cs[j])
             THEN UNION { PairPass([cs EXCEPT ![i] = r[1], ![j] = r[2]],
                                   Append(log, PairEntry(i, j, cs[i], cs[j], r)),
                                   order, k + 1, angularDraws)
                            : r \in ResolvePair(cs[i], cs[j], angularDraws) }
             ELSE PairPass(cs, log, order, k + 1, angularDraws)

(***************************************************************************)
(* updatePhysics and the frame branch of the WinMain loop                  *)
(*                                                                         *)
(* A world w fixes what the environment may do: w.count is the number of   *)
(* cubes, w.deltaTimes the frame lengths the clock may give, w.bounce,     *)
(* w.angular and w.heights the outcomes of dist_bounce_angle,              *)
(* dist_angular_vel and dist_height, w.frames the number of frames run.    *)
(***************************************************************************)
\* the outcomes of the two loops of updatePhysics on the collection cs
PhysicsOutcomes(cs, dt, w) ==
    UNION { { [cubes |-> o.cubes, bodyLog |-> b, pairLog |-> o.log]
                : o \in PairPass([i \in CubeIds(w.count) |-> b[i].stepped], <<>>,
                                 PairOrder(w.count), 1, w.angular) }
              : b \in StepCubes(cs, w.count - 1, dt, w.bounce, w.angular) }

\* the interval compared with > instead of >=
ResetDueLate(timer) == timer > RESET_INTERVAL_SECONDS

ResetDue(timer) == timer >= RESET_INTERVAL_SECONDS

\* one frame: updatePhysics(dt), then the frame counter and FPS timer
Frame(dt, w) ==
    LET second == secondTimer + dt
        timer  == resetTimer + dt
        reset  == ResetDue(timer)
        fps    == (IF reset THEN 0 ELSE fpsTimer) + dt
    IN  /\ frames < w.frames
        /\ frames' = frames + 1
        /\ deltaTime' = dt
        /\ timerAtCheck' = timer
        /\ resets' = IF reset THEN resets + 1 ELSE resets
        /\ resetTimer' = IF reset THEN 0 ELSE timer
        /\ secondTimer' = IF reset \/ second >= ONE THEN 0 ELSE second
        /\ secondsCount' = IF reset THEN 0
                           ELSE IF second >= ONE THEN secondsCount + 1
                           ELSE secondsCount
        /\ rotateY' = Fmod(rotateY + FMul(AUTO_ROTATE_SPEED_Y, dt), FULL_TURN)
        /\ \E begun \in (IF reset THEN ResetCubes(w.count, w.heights) ELSE {cubes}) :
             \E o \in PhysicsOutcomes(begun, dt, w) :
                /\ cubes' = o.cubes
                /\ bodyLog' = o.bodyLog
                /\ pairLog' = o.pairLog
        /\ fpsTimer' = IF fps >= ONE \div 2 THEN 0 ELSE fps
        /\ frameCount' = IF fps >= ONE \div 2 THEN 0
                         ELSE (IF reset THEN 0 ELSE frameCount) + 1
        /\ UNCHANGED <<va, vb, vr>>

\* the state WinMain enters its loop with: initOpenGL has called resetCubes
Started(w) ==
    /\ cubes \in ResetCubes(w.count, w.heights)
    /\ secondTimer = 0 /\ secondsCount = 0 /\ fpsTimer = 0 /\ frameCount = 0
    /\ resetTimer = 0 /\ rotateY = 0
    /\ deltaTime = 0 /\ frames = 0 /\ resets = 1 /\ timerAtCheck = 0
    /\ bodyLog = <<>> /\ pairLog = <<>>

NoVectors == va = Zero3 /\ vb = Zero3 /\ vr = <<>>

(***************************************************************************)
(* Spec: two cubes, frames of 5 ms and of 1 s.                             *)
(***************************************************************************)
World ==
    [count |-> NUM_CUBES, deltaTimes |-> {5, 1000}, bounce |-> {-500, 0, 100},
     angular |-> {0}, heights |-> {HEIGHT_MIN}, frames |-> MaxFrames]

Init == Started(World) /\ NoVectors

Next == \E dt \in World.deltaTimes : Frame(dt, World)

Spec == Init /\ [][Next]_vars

(***************************************************************************)
(* SpecWall: three cubes, frames of 1 s.                                   *)
(***************************************************************************)
WallWorld ==
    [count |-> WallCubes, deltaTimes |-> {1000}, bounce |-> {-500, -100},
     angular |-> {0}, heights |-> {HEIGHT_MIN}, frames |-> MaxWallFrames]

InitWall == Started(WallWorld) /\ NoVectors

NextWall == \E dt \in WallWorld.deltaTimes : Frame(dt, WallWorld)

SpecWall == InitWall /\ [][NextWall]_vars

(***************************************************************************)
(* SpecDeep: the world of Spec, one frame more.                            *)
(***************************************************************************)
DeepWorld == [World EXCEPT !.frames = MaxDeepFrames]

InitDeep == Started(DeepWorld) /\ NoVectors

NextDeep == \E dt \in DeepWorld.deltaTimes : Frame(dt, DeepWorld)

SpecDeep == InitDeep /\ [][NextDeep]_vars

(***************************************************************************)
(* SpecTimer: frames of 1 s and 2 s, long enough for the reset timer to    *)
(* run out twice; every bounce spins the cube backwards.                   *)
(***************************************************************************)
TimerWorld ==
    [count |-> NUM_CUBES, deltaTimes |-> {1000, 2000}, bounce |-> {100},
     angular |-> {-9000}, heights |-> {HEIGHT_MIN, HEIGHT_MAX},
     frames |-> MaxTimerFrames]

InitTimer == Started(TimerWorld) /\ NoVectors

NextTimer == \E dt \in TimerWorld.deltaTimes : Frame(dt, TimerWorld)

SpecTimer == InitTimer /\ [][NextTimer]_vars

\* a world whose second frame can be short: after a first frame of 1 s in
\* which cube 0 bounces straight up and cube 1 towards it, a frame of
\* 0.299 s finds the two overlapping by the same amount in X and in Y
AxisWorld ==
    [count |-> NUM_CUBES, deltaTimes |-> {299, 1000}, bounce |-> {-500, 0},
     angular |-> {0}, heights |-> {HEIGHT_MIN}, frames |-> MaxAxisFrames]

InitAxis == Started(AxisWorld) /\ NoVectors

NextAxis == \E dt \in AxisWorld.deltaTimes : Frame(dt, AxisWorld)

SpecAxis == InitAxis /\ [][NextAxis]_vars

(***************************************************************************)
(* SpecVec: the Vec3 operations on all operands with coordinates in        *)
(* -1.0 .. MaxCoord.                                                       *)
(***************************************************************************)
Coords == { k * ONE : k \in (-1) .. MaxCoord }

Vectors == { Vec3(x, y, z) : x \in Coords, y \in Coords, z \in Coords }

Add ==
    /\ vr = <<>>
    /\ vr' = [op |-> "add", value |-> VAdd(va, vb)]
    /\ UNCHANGED <<cubes, secondTimer, secondsCount, fpsTimer, frameCount, resetTimer,
                   rotateY, deltaTime, frames, resets, timerAtCheck, bodyLog, pairLog,
                   va, vb>>

Sub ==
    /\ vr = <<>>
    /\ vr' = [op |-> "sub", value |-> VSub(va, vb)]
    /\ UNCHANGED <<cubes, secondTimer, secondsCount, fpsTimer, frameCount, resetTimer,
                   rotateY, deltaTime, frames, resets, timerAtCheck, bodyLog, pairLog,
                   va, vb>>

Cross ==
    /\ vr = <<>>
    /\ vr' = [op |-> "cross", value |-> VCross(va, vb)]
    /\ UNCHANGED <<cubes, secondTimer, secondsCount, fpsTimer, frameCount, resetTimer,
                   rotateY, deltaTime, frames, resets, timerAtCheck, bodyLog, pairLog,
                   va, vb>>

InitVec == Started(World) /\ va \in Vectors /\ vb \in Vectors /\ vr = <<>>

NextVec == Add \/ Sub \/ Cross

SpecVec == InitVec /\ [][NextVec]_vars

(***************************************************************************)
(* What the claims speak of.                                               *)
(***************************************************************************)
Bodies == DOMAIN cubes

Resolved == { pairLog[k] : k \in 1 .. Len(pairLog) }

Axis(v, axis) == IF axis = "x" THEN v.x ELSE IF axis = "y" THEN v.y ELSE v.z

\* a resetCubes call was part of the last frame
ResetInFrame == frames > 0 /\ resetTimer = 0 /\ timerAtCheck > 0

\* the collection as resetCubes left it: at start-up, or in the last frame
\* (where the integration loop found it)
AfterReset ==
    IF frames = 0 THEN cubes ELSE [i \in DOMAIN bodyLog |-> bodyLog[i].start]

OnGrid(c, i) ==
    /\ c.position.x = FMul(((i % GRID_WIDTH) - GRID_CENTRE) * ONE, 2 * CUBE_SIZE)
    /\ c.position.z = FMul((((i \div GRID_WIDTH) % GRID_WIDTH) - GRID_CENTRE) * ONE,
                           2 * CUBE_SIZE)
    /\ c.position.x \in (-GRID_CENTRE * ONE) .. ((GRID_WIDTH - 1 - GRID_CENTRE) * ONE)
    /\ c.position.z \in (-GRID_CENTRE * ONE) .. ((GRID_WIDTH - 1 - GRID_CENTRE) * ONE)
    /\ c.position.y - (i \div (GRID_WIDTH * GRID_WIDTH)) * 2 * CUBE_SIZE
          \in HEIGHT_MIN .. HEIGHT_MAX

\* C3: after every updatePhysics call each of rotation.x, rotation.y and
\* rotation.z of every body lies in [0, 360).
C3_RotationRange ==
    frames > 0 =>
        \A i \in Bodies :
            /\ cubes[i].rotation.x >= 0 /\ cubes[i].rotation.x < FULL_TURN
            /\ cubes[i].rotation.y >= 0 /\ cubes[i].rotation.y < FULL_TURN
            /\ cubes[i].rotation.z >= 0 /\ cubes[i].rotation.z < FULL_TURN

\* C6: right after resetCubes returns the collection holds exactly NUM_CUBES
\* bodies, each with zero velocity, rotation and angular velocity, of size
\* CUBE_SIZE, x and z on the 10x10 grid of spacing 2*CUBE_SIZE with
\* coordinates in [-5, 4], and y the layer offset plus a height in [5, 15].
C6_ResetPostcondition ==
    (frames = 0 \/ ResetInFrame) =>
        /\ DOMAIN AfterReset = CubeIds(NUM_CUBES)
        /\ \A i \in DOMAIN AfterReset :
              /\ AfterReset[i].velocity = Zero3
              /\ AfterReset[i].rotation = Zero3
              /\ AfterReset[i].angularVelocity = Zero3
              /\ AfterReset[i].size = CUBE_SIZE
              /\ OnGrid(AfterReset[i], i)

\* C6 witness: a frame has just reset a collection whose cubes had left the
\* grid, were moving and had turned.
C6_Witness ==
    /\ ResetInFrame
    /\ resets = 2
    /\ \E i \in Bodies : bodyLog[i].start.position.y = HEIGHT_MAX

\* C7 as claimed: every call adds deltaTime to the reset timer and resets in
\* that call exactly when the sum exceeds RESET_INTERVAL_SECONDS; a reset
\* zeroes the timer; the time accumulated between two resets passes the
\* interval by at most one frame's deltaTime.
C7_ResetWhenExceeded ==
    [][ /\ timerAtCheck' = resetTimer + deltaTime'
        /\ (resets' = resets + 1) <=> (timerAtCheck' > RESET_INTERVAL_SECONDS)
        /\ resets' \in {resets, resets + 1}
        /\ resetTimer' = (IF resets' = resets THEN timerAtCheck' ELSE 0)
        /\ timerAtCheck' <= RESET_INTERVAL_SECONDS + deltaTime' ]_vars

\* C7 as amended: every call adds deltaTime to the reset timer and resets in
\* that call exactly when the sum reaches or exceeds RESET_INTERVAL_SECONDS;
\* a reset zeroes the timer; the time accumulated between two resets passes
\* the interval by at most one frame's deltaTime.
C7_ResetWhenReached ==
    [][ /\ timerAtCheck' = resetTimer + deltaTime'
        /\ (resets' = resets + 1) <=> (timerAtCheck' >= RESET_INTERVAL_SECONDS)
        /\ resets' \in {resets, resets + 1}
        /\ resetTimer' = (IF resets' = resets THEN timerAtCheck' ELSE 0)
        /\ timerAtCheck' <= RESET_INTERVAL_SECONDS + deltaTime' ]_vars

\* C7 witness: a frame found the timer past the interval and reset.
C7_Witness ==
    /\ resets = 2
    /\ timerAtCheck > RESET_INTERVAL_SECONDS
    /\ resetTimer = 0

\* C9: addition is the component-wise sum, subtraction the component-wise
\* difference, cross the right-handed cross product.
C9_VectorMath ==
    vr # <<>> =>
        /\ vr.op = "add" =>
              vr.value = Vec3(va.x + vb.x, va.y + vb.y, va.z + vb.z)
        /\ vr.op = "sub" =>
              vr.value = Vec3(va.x - vb.x, va.y - vb.y, va.z - vb.z)
        /\ vr.op = "cross" =>
              vr.value = Vec3(FMul(va.y, vb.z) - FMul(va.z, vb.y),
                              FMul(va.z, vb.x) - FMul(va.x, vb.z),
                              FMul(va.x, vb.y) - FMul(va.y, vb.x))

\* C2: right after an overlapping pair is resolved, the two boxes overlap
\* by no more than the 0.001 epsilon along the separation axis chosen.
C2_CollisionSeparation ==
    \A e \in Resolved :
        Axis(Overlap(e.after[1], e.after[2]), e.axis) <= SEPARATION_EPSILON

\* C8: resolving a pair whose relative velocity along the separation
\* direction is zero or positive changes positions only: velocity and
\* angularVelocity (and every other field) of both bodies stay as they
\* were, and a pair separated along X no longer overlaps in X.
C8_NoImpulseWhenNotConverging ==
    \A e \in Resolved :
        e.relative >= 0 =>
            /\ \A k \in {1, 2} :
                  /\ e.after[k].velocity = e.before[k].velocity
                  /\ e.after[k].angularVelocity = e.before[k].angularVelocity
                  /\ e.after[k] = [e.before[k] EXCEPT !.position = e.after[k].position]
            /\ e.axis = "x" => Overlap(e.after[1], e.after[2]).x <= 0

\* C8 witness: a resolved pair that was separating along the direction
\* chosen, both bodies moving.
C8_Witness ==
    \E e \in Resolved :
        /\ e.relative > 0
        /\ e.before[1].velocity # Zero3
        /\ e.before[2].velocity # Zero3
        /\ e.after[1].position # e.before[1].position

\* C10: at the end of every updatePhysics call every body whose resting
\* flag is true has velocity and angularVelocity equal to the zero vector.
C10_RestingMotionless ==
    \A i \in Bodies :
        cubes[i].resting =>
            cubes[i].velocity = Zero3 /\ cubes[i].angularVelocity = Zero3

\* C4: a body that starts a call on the ground with zero velocity and zero
\* angular velocity and overlaps no other body is, after a call with a
\* positive deltaTime, flagged resting with velocity and angularVelocity zero.
C4_RestingConvergence ==
    \A i \in DOMAIN bodyLog :
        ( /\ deltaTime > 0
          /\ bodyLog[i].start.position.y - HalfSize(bodyLog[i].start) = GROUND_Y
          /\ bodyLog[i].start.velocity = Zero3
          /\ bodyLog[i].start.angularVelocity = Zero3
          /\ \A j \in DOMAIN bodyLog \ {i} :
                ~Overlapping(bodyLog[i].start, bodyLog[j].start)
          /\ \A e \in Resolved : e.i # i /\ e.j # i )
        => /\ cubes[i].resting
           /\ cubes[i].velocity = Zero3
           /\ cubes[i].angularVelocity = Zero3

\* C5: every body whose bottom face is below GROUND_Y after integration has,
\* at the end of the call, its bottom face at GROUND_Y and a vertical
\* velocity of the sign opposite to the one before the bounce.
C5_GroundClamp ==
    \A i \in DOMAIN bodyLog :
        bodyLog[i].hitGround =>
            /\ cubes[i].position.y - HalfSize(cubes[i]) = GROUND_Y
            /\ \/ bodyLog[i].integrated.velocity.y < 0 /\ cubes[i].velocity.y > 0
               \/ bodyLog[i].integrated.velocity.y > 0 /\ cubes[i].velocity.y < 0

\* C1: at the end of every updatePhysics call every body has
\* |position.x| <= 8.0 and |position.z| <= 8.0.
C1_WallContainment ==
    \A i \in Bodies :
        Abs(cubes[i].position.x) <= WALL_BOUND /\ Abs(cubes[i].position.z) <= WALL_BOUND

\* the least of the three overlaps, and the last axis in the order X, Y, Z
\* that has it
MinOverlap(o) == Min(o.x, Min(o.y, o.z))

LastMinAxis(o) ==
    IF o.z = MinOverlap(o) THEN "z" ELSE IF o.y = MinOverlap(o) THEN "y" ELSE "x"

\* C11: for every pair resolved, the separation axis chosen has the least
\* of overlap_x, overlap_y and overlap_z, the separation magnitude is that
\* least overlap, and among axes that tie for it the later one in the
\* order X, Y, Z is chosen.
C11_MinimumOverlapAxis ==
    \A e \in Resolved :
        /\ Axis(e.overlap, e.axis) = MinOverlap(e.overlap)
        /\ MtvMagnitude(e.overlap) = MinOverlap(e.overlap)
        /\ e.axis = LastMinAxis(e.overlap)

\* the point p displaced by delta along one axis
Shifted(p, axis, delta) ==
    IF axis = "x" THEN [p EXCEPT !.x = p.x + delta]
    ELSE IF axis = "y" THEN [p EXCEPT !.y = p.y + delta]
    ELSE [p EXCEPT !.z = p.z + delta]

\* the signs "from B's centre towards A's centre" allows along an axis:
\* either one when the two centres coincide on it
SignsToward(a, b) == IF a > b THEN {1} ELSE IF a < b THEN {-1} ELSE {-1, 1}

\* C12: resolving a pair moves body A by +d and body B by -d along the
\* chosen axis, d being half the overlap on that axis plus 0.001, signed
\* from B's centre towards A's, and leaves the coordinates of both bodies
\* on the other two axes as they were.
C12_SymmetricPush ==
    \A e \in Resolved :
        \E sign \in SignsToward(Axis(e.before[1].position, e.axis),
                                Axis(e.before[2].position, e.axis)) :
            LET d == sign * (FDiv(Axis(e.overlap, e.axis), 2 * ONE) + SEPARATION_EPSILON)
            IN  /\ e.after[1].position = Shifted(e.before[1].position, e.axis, d)
                /\ e.after[2].position = Shifted(e.before[2].position, e.axis, -d)

\* the component-wise sum of two vectors
SumByComponent(a, b) == Vec3(a.x + b.x, a.y + b.y, a.z + b.z)

\* the directions a bounce off a boundary of the given normal may take:
\* the normal plus a drawn perturbation, normalized (the sum taken as the
\* program takes it, or component by component)
BounceDirections(normal, perturbs) ==
    { Normalize(VAdd(normal, p)) : p \in perturbs }
        \cup { Normalize(SumByComponent(normal, p)) : p \in perturbs }

\* bounceDirection * (-normalSpeed * BOUNCE_FACTOR) plus FRICTION_FACTOR
\* times the tangential part of v, on every component
BounceVelocity(v, normal, direction) ==
    SumByComponent(VScale(direction, FMul(-Dot(v, normal), BOUNCE_FACTOR)),
                   VScale(VSub(v, VScale(normal, Dot(v, normal))), FRICTION_FACTOR))

\* the velocity c left a boundary of the given normal with is one the
\* formula gives for the velocity v it arrived with
BouncedAsStated(c, v, normal, perturbs) ==
    \E direction \in BounceDirections(normal, perturbs) :
        c.velocity = BounceVelocity(v, normal, direction)

\* the inward normal of the wall the cube has crossed along an axis (0 if
\* none)
WallCrossed(c, axis) ==
    IF Axis(c.position, axis) - HalfSize(c) < -WALL_BOUND THEN ONE
    ELSE IF Axis(c.position, axis) + HalfSize(c) > WALL_BOUND THEN -ONE
    ELSE 0

\* C13: after a ground bounce, and after a bounce off a single wall, the
\* velocity is on every component bounceDirection * (-normalSpeed *
\* BOUNCE_FACTOR) plus FRICTION_FACTOR times the tangential part of the
\* velocity before the bounce.
C13_BounceVelocity ==
    \A i \in DOMAIN bodyLog :
        LET b == bodyLog[i]
            draws == World.bounce
        IN  /\ b.hitGround =>
                  BouncedAsStated(b.grounded, b.integrated.velocity, Vec3(0, ONE, 0),
                                  { Vec3(p, 0, q) : p \in draws, q \in draws })
            /\ (WallCrossed(b.grounded, "x") # 0 /\ WallCrossed(b.grounded, "z") = 0) =>
                  BouncedAsStated(b.walled, b.grounded.velocity,
                                  Vec3(WallCrossed(b.grounded, "x"), 0, 0),
                                  { Vec3(0, p, q) : p \in draws, q \in draws })
            /\ (WallCrossed(b.grounded, "z") # 0 /\ WallCrossed(b.grounded, "x") = 0) =>
                  BouncedAsStated(b.walled, b.grounded.velocity,
                                  Vec3(0, 0, WallCrossed(b.grounded, "z")),
                                  { Vec3(p, q, 0) : p \in draws, q \in draws })

====
